---------------------------- MODULE Spec2Model ----------------------------
(***************************************************************************)
(* Model of the serial bootloader client of the SimpleLink notebooks:      *)
(* class SerialBootloaderInterface (src/README.md, the notebook cell at    *)
(* lines 168-271) and the cells that use it.                               *)
(*                                                                         *)
(* Bytes are the naturals 0..255, byte strings are sequences of bytes.     *)
(* The device is the environment: what ser.read(ser.in_waiting) returns is *)
(* drawn from the reply sets below.  An I/O event is logged for every      *)
(* call the client makes on the serial link, in program order.             *)
(* Addresses stay below 2^31 (TLC's integers); a negative address stands   *)
(* for the values int.to_bytes(4, 'big') refuses.                          *)
(***************************************************************************)
EXTENDS Integers, Sequences, FiniteSets, TLC

VARIABLES
    sbi,         \* "none" | "ready": whether a constructed client exists
    ser,         \* "closed" | "open": the serial link self.ser
    pc,          \* "idle" | "region_loop" | "done"; "frames", "session",
                 \* "sweep", "async", "prepare" in the other specifications
    call,        \* the call in progress or just finished: [name, args]
    result,      \* its outcome: a return value or a raised exception
    io,          \* the link operations of the call, in order
    addr_start,  \* read_memory_region: the next unread address
    blocks,      \* read_memory_region: number of full blocks
    i,           \* read_memory_region: loop index of range(blocks)
    data,        \* read_memory_region: bytes collected so far
    block_log,   \* read_memory_region: the blocks read_memory_block returned
    session,     \* a run of calls on one link: [rx, history]
    sweep,       \* the glitch sweep of notebook 5: loop indices and counters
    wire,        \* calls run step by step against a device that sends when
                 \* it likes: [step, name, cmd, n, rx, tx, resp, of, first]
    prep         \* the erase and flash cell of notebook 5: [pc, nrst,
                 \* target_pwr, output, printed, log]

vars == <<sbi, ser, pc, call, result, io, addr_start, blocks, i, data, block_log,
          session, sweep, wire, prep>>

---------------------------------------------------------------------------
(* Bounds of the model *)

\* longest handshake / ping reply drawn from ReplyAlphabet
MaxReplyLen == 3
\* read_memory_region inputs span at most this many full blocks
MaxBlocks == 2
\* the frame-construction runs build at most this many frames
MaxFrames == 2
\* a run of calls on one link makes at most this many calls
MaxCalls == 4
\* against the device that sends when it likes the client issues at most
\* this many calls
MaxAsyncCalls == 2
\* the sweep is run over this many offsets (len(offsets) is 25 in the
\* notebook) with this many attempts each (repeats is 10 in the notebook)
NumOffsets == 2
Repeats == 3
\* thorough_reset_dut counts its retries up to this many; further retries
\* happen but leave the count and the delay as they are
MaxRetries == 2

---------------------------------------------------------------------------
(* Program constants *)

\* self.ACK = bytes([0x00, 0xcc])
ACK == <<0, 204>>
\* self.NACK = bytes([0x00, 0x33])
NACK == <<0, 51>>
\* self.status_val, in the dict's insertion order
status_val ==
    << [name |-> "COMMAND_RET_SUCCESS",     val |-> 64],
       [name |-> "COMMAND_RET_UNKNOWN_CMD", val |-> 65],
       [name |-> "COMMAND_RET_INVALID_CMD", val |-> 66],
       [name |-> "COMMAND_RET_INVALID_ADR", val |-> 67],
       [name |-> "COMMAND_RET_FLASH_FAIL",  val |-> 68] >>
\* self.status_val['COMMAND_RET_SUCCESS']
COMMAND_RET_SUCCESS == 64
\* the block size of read_memory_region (253 in lines 259, 264, 266)
BlockSize == 253
\* size = 9, cmd = 0x2A, access_type = 0x0 of read_memory_block
ReadMemSize == 9
ReadMemCmd == 42
AccessType == 0
\* the fixed frames of get_chip_id, ping and get_status
ChipIdFrame == <<3, 40, 40>>
PingFrame == <<3, 32, 32>>
StatusFrame == <<3, 35, 35>>
\* the synchronisation pattern bytes([0x55, 0x55])
SyncPattern == <<85, 85>>

---------------------------------------------------------------------------
(* Python primitives the client uses *)

Min(a, b) == IF a < b THEN a ELSE b

\* s[lo:hi] for 0 <= lo (0-based, hi exclusive, clamped to the length)
PySlice(s, lo, hi) ==
    LET b == Min(hi, Len(s))
    IN  IF lo >= b THEN <<>> ELSE SubSeq(s, lo + 1, b)

\* the 0-based index of the last b, -1 when absent
FindLast(s, b) ==
    LET hits == {k \in 1..Len(s) : s[k] = b}
    IN  IF hits = {} THEN -1
        ELSE (CHOOSE k \in hits : \A j \in hits : k >= j) - 1

\* bytes.find(b, 0): 0-based index of the first b, -1 when absent
Find(s, b) ==
    LET hits == {k \in 1..Len(s) : s[k] = b}
    IN  IF hits = {} THEN -1
        ELSE (CHOOSE k \in hits : \A j \in hits : k <= j) - 1

\* chk = 0; for b in payload: chk += b  (the sum of s[lo..hi], by halves)
RECURSIVE SumRange(_, _, _)
SumRange(s, lo, hi) ==
    IF lo > hi THEN 0
    ELSE IF lo = hi THEN s[lo]
    ELSE SumRange(s, lo, (lo + hi) \div 2)
             + SumRange(s, ((lo + hi) \div 2) + 1, hi)
SumBytes(s) == SumRange(s, 1, Len(s))

\* a mutated checksum mask: keeps 7 bits
ChecksumLow7(payload) == SumBytes(payload) % 128
\* chk = chk & 0xff
Checksum(payload) == SumBytes(payload) % 256

\* a mutated conversion: least significant byte first
ToBytesLittle(addr) ==
    << addr % 256, (addr \div 256) % 256,
       (addr \div 65536) % 256, (addr \div 16777216) % 256 >>
\* addr.to_bytes(4, byteorder='big'), for 0 <= addr
ToBytes4Big(addr) ==
    << (addr \div 16777216) % 256, (addr \div 65536) % 256,
       (addr \div 256) % 256, addr % 256 >>

\* a mutated range check: the value is reduced modulo 256 instead
ByteInRangeWrapped(v) == TRUE
\* bytearray([...]) takes only values in range(0, 256)
ByteInRange(v) == v >= 0 /\ v < 256

HexDigit == <<"0", "1", "2", "3", "4", "5", "6", "7",
              "8", "9", "a", "b", "c", "d", "e", "f">>
\* bytes.hex(): two lower-case digits per byte, high nibble first
Hex(s) ==
    [k \in 1..(2 * Len(s)) |->
        LET b == s[(k + 1) \div 2]
        IN  IF k % 2 = 1 THEN HexDigit[(b \div 16) + 1]
                         ELSE HexDigit[(b % 16) + 1]]

\* repr() of a byte value, as decimal digits
Repr(n) ==
    IF n < 10 THEN <<HexDigit[n + 1]>>
    ELSE IF n < 100 THEN <<HexDigit[(n \div 10) + 1], HexDigit[(n % 10) + 1]>>
    ELSE <<HexDigit[(n \div 100) + 1], HexDigit[((n \div 10) % 10) + 1],
           HexDigit[(n % 10) + 1]>>

---------------------------------------------------------------------------
(* Outcomes and link events *)

Return(v) ==
    [kind |-> "return", value |-> v, exc |-> "", msg |-> "", detail |-> <<>>]
Raise(e, m, d) ==
    [kind |-> "raise", value |-> <<>>, exc |-> e, msg |-> m, detail |-> d]
NoResult ==
    [kind |-> "none", value |-> <<>>, exc |-> "", msg |-> "", detail |-> <<>>]

\* serial.Serial(port, 115200)
Open == [op |-> "open", site |-> "", bytes |-> <<>>]
\* self.ser.flushInput()
FlushInput == [op |-> "flushInput", site |-> "", bytes |-> <<>>]
\* self.ser.write(b); site is the statement: the sync pattern, a command
\* frame, or an acknowledgement written after a read
Write(site, b) == [op |-> "write", site |-> site, bytes |-> b]
\* time.sleep(0.1)
Sleep == [op |-> "sleep", site |-> "", bytes |-> <<>>]
\* self.ser.read(self.ser.in_waiting), which returned b
Read(b) == [op |-> "read", site |-> "", bytes |-> b]

\* a transaction that leaves the response unread
TransactionUnread(frame, resp) ==
    <<FlushInput, Write("command", frame), Sleep>>

\* a transaction that flushes the input only after writing the frame
TransactionWriteFirst(frame, resp) ==
    <<Write("command", frame), FlushInput, Sleep, Read(resp)>>

\* the four link operations of a command transaction
Transaction(frame, resp) ==
    <<FlushInput, Write("command", frame), Sleep, Read(resp)>>

---------------------------------------------------------------------------
(* The methods of SerialBootloaderInterface.  Each takes the bytes the     *)
(* device has put in the input buffer by the time of the read, and gives   *)
(* the link operations performed and the outcome.                          *)

\* a mutated comparison: accepts any reply that starts with the ACK token
StartsWithAck(ret) == PySlice(ret, 0, 2) = ACK
\* ret != self.ACK in __init__, negated
HandshakeOk(ret) == ret = ACK

\* a mutated comparison: accepts any reply that contains the ACK marker
ContainsAckMarker(ret) == Find(ret, 204) # -1
\* ret == self.ACK in ping
PingOk(ret) == ret = ACK

get_chip_id(resp) ==
    [io  |-> Transaction(ChipIdFrame, resp) \o <<Write("ack", <<204>>)>>,
     ret |-> Return(resp)]

ping(ret) ==
    [io  |-> Transaction(PingFrame, ret),
     ret |-> IF PingOk(ret)
             THEN Return(ret)
             ELSE Raise("AssertionError",
                        "Ping command was not acknowledged by device", <<>>)]

\* the first byte of a non-empty response
FirstByte(resp) == resp[1]
\* list(resp)[-1] of a non-empty response
LastByte(resp) == resp[Len(resp)]

\* a get_status that takes no response for the status SUCCESS
get_status_lenient(resp) ==
    [io  |-> Transaction(StatusFrame, resp) \o <<Write("ack", <<204>>)>>,
     ret |-> IF resp = <<>> THEN Return(<<COMMAND_RET_SUCCESS>>)
             ELSE Return(<<LastByte(resp)>>)]

\* returns list(resp)[-1]; the value is carried as a one-byte sequence
get_status(resp) ==
    [io  |-> Transaction(StatusFrame, resp) \o <<Write("ack", <<204>>)>>,
     ret |-> IF resp = <<>>
             THEN Raise("IndexError", "list index out of range", <<>>)
             ELSE Return(<<LastByte(resp)>>)]

\* __init__: ret is the handshake reply, id_resp the reply to get_chip_id
Init_(ret, id_resp) ==
    LET hello == <<Open, Write("sync", SyncPattern), Sleep, Read(ret)>>
    IN  IF ~HandshakeOk(ret)
        THEN [io  |-> hello,
              ret |-> Raise("ValueError",
                            "Expected the bootloader to reply with 00CC, instead it replied with: ",
                            Hex(ret))]
        ELSE [io  |-> hello \o get_chip_id(id_resp).io,
              ret |-> Return(<<>>)]

\* list(self.status_val.values()).index(status): 0-based, -1 when absent
RECURSIVE StatusIndexFrom(_, _)
StatusIndexFrom(status, k) ==
    IF k > Len(status_val) THEN -1
    ELSE IF status_val[k].val = status THEN k - 1
    ELSE StatusIndexFrom(status, k + 1)
StatusIndex(status) == StatusIndexFrom(status, 1)

\* the exception of lines 251-252 for a status that is not SUCCESS
StatusError(status) ==
    IF StatusIndex(status) = -1
    THEN Raise("ValueError", "is not in list", Repr(status))
    ELSE Raise("ValueError", "ERROR! status:",
               <<status_val[StatusIndex(status) + 1].name>>)

\* payload = [cmd] + addr.to_bytes(4, 'big') + [access_type, no_of_access]
ReadMemPayload(addr, no_of_access) ==
    <<ReadMemCmd>> \o ToBytes4Big(addr) \o <<AccessType, no_of_access>>

\* a packet whose size byte is the length of the payload alone
ReadMemPacketBodySize(addr, no_of_access) ==
    <<Len(ReadMemPayload(addr, no_of_access)),
      Checksum(ReadMemPayload(addr, no_of_access))>>
        \o ReadMemPayload(addr, no_of_access)

\* packet = bytearray([size, chk]) + payload
ReadMemPacket(addr, no_of_access) ==
    <<ReadMemSize, Checksum(ReadMemPayload(addr, no_of_access))>>
        \o ReadMemPayload(addr, no_of_access)

\* a slice that starts right after the 0xCC and keeps the two header bytes
ExtractAfterMarker(resp, no_of_access) ==
    PySlice(resp, Find(resp, 204) + 1, Find(resp, 204) + 1 + no_of_access)

\* ind = resp.find(0xcc, 0) + 3; resp = resp[ind:ind+no_of_access]
Extract(resp, no_of_access) ==
    PySlice(resp, Find(resp, 204) + 3, Find(resp, 204) + 3 + no_of_access)

\* an acknowledgment of one byte, as get_status and get_chip_id write it
SingleAck == <<204>>
\* self.ser.write([0x00, 0xcc]) after the read of read_memory_block
ReadAck == <<0, 204>>

\* a mutated length check: any non-empty payload passes
SomeReceived(block, no_of_access) == no_of_access = 0 \/ Len(block) > 0
\* a length check that refuses the payload of no bytes
NonEmptyReceived(block, no_of_access) ==
    Len(block) = no_of_access /\ no_of_access > 0
\* len(resp) == no_of_access
AllReceived(block, no_of_access) == Len(block) = no_of_access

\* the two checks in the other order: the length first, then the status
LengthThenStatus(status, block, no_of_access) ==
    IF ~AllReceived(block, no_of_access)
    THEN Raise("AssertionError", "Did not receive all bytes...", <<>>)
    ELSE IF status # COMMAND_RET_SUCCESS THEN StatusError(status)
    ELSE Return(block)

\* if status != COMMAND_RET_SUCCESS: raise ...; assert len(resp) ==
\* no_of_access; return resp  (lines 250-255)
StatusThenLength(status, block, no_of_access) ==
    IF status # COMMAND_RET_SUCCESS THEN StatusError(status)
    ELSE IF ~AllReceived(block, no_of_access)
    THEN Raise("AssertionError", "Did not receive all bytes...", <<>>)
    ELSE Return(block)

\* resp is the reply to the read command, sresp the reply to get_status
read_memory_block(addr, no_of_access, resp, sresp) ==
    IF addr < 0
    THEN [io  |-> <<>>,
          ret |-> Raise("OverflowError",
                        "can't convert negative int to unsigned", <<>>)]
    ELSE IF ~ByteInRange(no_of_access)
    THEN [io  |-> <<>>,
          ret |-> Raise("ValueError", "byte must be in range(0, 256)", <<>>)]
    ELSE
        LET rd     == Transaction(ReadMemPacket(addr, no_of_access), resp)
                          \o <<Write("ack", ReadAck)>>
            block  == Extract(resp, no_of_access)
            st     == get_status(sresp)
        IN  [io  |-> rd \o st.io,
             ret |-> IF st.ret.kind = "raise" THEN st.ret
                     ELSE StatusThenLength(st.ret.value[1], block,
                                           no_of_access)]

\* an exception of a block read that the loop drops
RaisedIgnored(ret) == FALSE
\* block = self.read_memory_block(...) raised: the exception leaves
\* read_memory_region at that line
Raised(ret) == ret.kind = "raise"

\* the number of blocks rounded up, the remainder counted as a full block
RegionBlocksCeil(start, stop) == (stop - start + BlockSize - 1) \div BlockSize
\* blocks = (addr_stop-addr_start)//253
RegionBlocks(start, stop) == (stop - start) \div BlockSize

\* a mutated address step: a 256-byte stride
NextAddr256(a) == a + 256
\* addr_start += 253
NextAddr(a) == a + BlockSize

\* a mutated accumulation: the block is put in front
Prepend(d, block) == block \o d
\* data += block
Collect(d, block) == d \o block

---------------------------------------------------------------------------
(* The device and the caller: the inputs of the model *)

\* the byte the device holds at address a
Mem(a) == (3 * (a % 256) + 201) % 256
MemBytes(a, n) == [k \in 1..n |-> Mem(a + k - 1)]

\* the device's answer to a read of n bytes at a: the ACK token, then a
\* data packet of a size byte, a checksum byte and the n bytes
WellFormedRead(a, n) ==
    ACK \o <<(n + 2) % 256, Checksum(MemBytes(a, n))>> \o MemBytes(a, n)

\* the device's answer to get_status with status s
StatusReply(s) == ACK \o <<3, s, s>>

\* what the read after a read_memory command may return
ReadReplies(a, n) ==
    { WellFormedRead(a, n),
      <<0>> \o WellFormedRead(a, n),
      ACK \o <<(n + 2) % 256, Checksum(MemBytes(a, n))>> \o MemBytes(a, n - 1),
      <<0, 0>> \o MemBytes(a, n),
      ACK, NACK, <<>> }

StatusBytes == {64, 65, 66, 67, 68, 69, 255}
\* what the read after a get_status command may return
StatusReplies == {StatusReply(s) : s \in StatusBytes} \cup {<<>>}

\* what the read after get_chip_id may return (the first is the reply the
\* notebook output records: 00cc0642b0029000)
ChipIdReplies == { <<0, 204, 6, 66, 176, 2, 144, 0>>, NACK, <<>> }

ReplyAlphabet == {0, 51, 204}
\* what the read after the sync pattern or a ping may return
ShortReplies == UNION {[1..n -> ReplyAlphabet] : n \in 0..MaxReplyLen}

\* the arguments of the direct read_memory_block calls
BlockAddrs == {-1, 0, 268435456, 268435457}
BlockCounts == {-1, 0, 1, 2, 253, 254, 255, 256}

\* the arguments of the read_memory_region calls: start and stop - start
RegionStarts == {254, 268435456}
RegionSizes ==
    {-300, -1, 0, 1, 115, 252}
        \cup {BlockSize * k + r : k \in 1..MaxBlocks, r \in {0, 1, 36}}

\* the arguments of the frame-construction runs: addresses and counts that
\* differ from one another in a single byte
FrameAddrs == {0, 128, 268435456, 268435584, 276824064, 285212672}
FrameCounts == {0, 1, 129, 253}

NoCall == [name |-> "", args |-> <<>>]

\* no run of calls / no sweep in progress
NoSession == [rx |-> <<>>, history |-> <<>>]
NoSweep == [pc |-> "off"]
NoWire == [step |-> "off"]
NoPrep == [pc |-> "off"]

---------------------------------------------------------------------------
(* The state machine *)

Init ==
    /\ sbi = "none"
    /\ ser = "closed"
    /\ pc = "idle"
    /\ call = NoCall
    /\ result = NoResult
    /\ io = <<>>
    /\ addr_start = 0
    /\ blocks = 0
    /\ i = 0
    /\ data = <<>>
    /\ block_log = <<>>
    /\ session = NoSession
    /\ sweep = NoSweep
    /\ wire = NoWire
    /\ prep = NoPrep

region_vars == <<addr_start, blocks, i, data, block_log>>

\* the state of the other notebooks' runs, untouched by the client's calls
bench_vars == <<session, sweep, wire, prep>>

\* sbi = SerialBootloaderInterface(port=...)
Construct ==
    /\ pc = "idle"
    /\ sbi = "none"
    /\ \E ret \in ShortReplies, id_resp \in ChipIdReplies :
          LET r == Init_(ret, id_resp)
          IN  /\ call' = [name |-> "__init__", args |-> <<>>]
              /\ io' = r.io
              /\ result' = r.ret
              /\ sbi' = IF r.ret.kind = "return" THEN "ready" ELSE "none"
    /\ ser' = "open"
    /\ pc' = "done"
    /\ UNCHANGED region_vars
    /\ UNCHANGED bench_vars

\* sbi.get_chip_id()
GetChipId ==
    /\ pc = "idle"
    /\ sbi = "ready"
    /\ \E resp \in ChipIdReplies :
          LET r == get_chip_id(resp)
          IN  /\ call' = [name |-> "get_chip_id", args |-> <<>>]
              /\ io' = r.io
              /\ result' = r.ret
    /\ pc' = "done"
    /\ UNCHANGED <<sbi, ser, region_vars>>
    /\ UNCHANGED bench_vars

\* sbi.ping()
Ping ==
    /\ pc = "idle"
    /\ sbi = "ready"
    /\ \E ret \in ShortReplies :
          LET r == ping(ret)
          IN  /\ call' = [name |-> "ping", args |-> <<>>]
              /\ io' = r.io
              /\ result' = r.ret
    /\ pc' = "done"
    /\ UNCHANGED <<sbi, ser, region_vars>>
    /\ UNCHANGED bench_vars

\* sbi.get_status()
GetStatus ==
    /\ pc = "idle"
    /\ sbi = "ready"
    /\ \E resp \in StatusReplies :
          LET r == get_status(resp)
          IN  /\ call' = [name |-> "get_status", args |-> <<>>]
              /\ io' = r.io
              /\ result' = r.ret
    /\ pc' = "done"
    /\ UNCHANGED <<sbi, ser, region_vars>>
    /\ UNCHANGED bench_vars

\* sbi.read_memory_block(addr, no_of_access)
ReadMemoryBlock ==
    /\ pc = "idle"
    /\ sbi = "ready"
    /\ \E addr \in BlockAddrs, n \in BlockCounts :
       \E resp \in ReadReplies(addr, n), sresp \in StatusReplies :
          LET r == read_memory_block(addr, n, resp, sresp)
          IN  /\ call' = [name |-> "read_memory_block", args |-> <<addr, n>>]
              /\ io' = r.io
              /\ result' = r.ret
    /\ pc' = "done"
    /\ UNCHANGED <<sbi, ser, region_vars>>
    /\ UNCHANGED bench_vars

\* sbi.read_memory_region(addr_start, addr_stop): entry, lines 259-260
RegionStart ==
    /\ pc = "idle"
    /\ sbi = "ready"
    /\ \E start \in RegionStarts, size \in RegionSizes :
          /\ call' = [name |-> "read_memory_region",
                      args |-> <<start, start + size>>]
          /\ blocks' = RegionBlocks(start, start + size)
          /\ addr_start' = start
    /\ data' = <<>>
    /\ i' = 0
    /\ block_log' = <<>>
    /\ pc' = "region_loop"
    /\ UNCHANGED <<sbi, ser, result, io>>
    /\ UNCHANGED bench_vars

\* one iteration of for i in range(blocks), lines 263-266
RegionLoop ==
    /\ pc = "region_loop"
    /\ i < blocks
    /\ \E resp \in ReadReplies(addr_start, BlockSize), sresp \in StatusReplies :
          LET r == read_memory_block(addr_start, BlockSize, resp, sresp)
          IN  /\ io' = io \o r.io
              /\ IF Raised(r.ret)
                 THEN /\ result' = r.ret
                      /\ pc' = "done"
                      /\ UNCHANGED <<addr_start, i, data, block_log>>
                 ELSE /\ data' = Collect(data, r.ret.value)
                      /\ addr_start' = NextAddr(addr_start)
                      /\ i' = i + 1
                      /\ block_log' = Append(block_log,
                             [addr |-> addr_start, count |-> BlockSize,
                              bytes |-> r.ret.value])
                      /\ UNCHANGED <<result, pc>>
    /\ UNCHANGED <<sbi, ser, call, blocks>>
    /\ UNCHANGED bench_vars

\* the final block and the return, lines 268-271
RegionFinal ==
    /\ pc = "region_loop"
    /\ i >= blocks
    /\ LET n == call.args[2] - addr_start
       IN  \E resp \in ReadReplies(addr_start, n), sresp \in StatusReplies :
              LET r == read_memory_block(addr_start, n, resp, sresp)
              IN  /\ io' = io \o r.io
                  /\ IF Raised(r.ret)
                     THEN /\ result' = r.ret
                          /\ UNCHANGED <<data, block_log>>
                     ELSE /\ data' = Collect(data, r.ret.value)
                          /\ result' = Return(Collect(data, r.ret.value))
                          /\ block_log' = Append(block_log,
                                 [addr |-> addr_start, count |-> n,
                                  bytes |-> r.ret.value])
    /\ pc' = "done"
    /\ UNCHANGED <<sbi, ser, call, addr_start, blocks, i>>
    /\ UNCHANGED bench_vars

\* the cell has run; the notebook goes on to the next call
NextCell ==
    /\ pc = "done"
    /\ pc' = "idle"
    /\ call' = NoCall
    /\ result' = NoResult
    /\ io' = <<>>
    /\ addr_start' = 0
    /\ blocks' = 0
    /\ i' = 0
    /\ data' = <<>>
    /\ block_log' = <<>>
    /\ UNCHANGED <<sbi, ser>>
    /\ UNCHANGED bench_vars

Next ==
    \/ Construct
    \/ GetChipId
    \/ Ping
    \/ GetStatus
    \/ ReadMemoryBlock
    \/ RegionStart
    \/ RegionLoop
    \/ RegionFinal
    \/ NextCell

Spec == Init /\ [][Next]_vars

(* Frame construction alone: lines 225-238 of read_memory_block, run for   *)
(* several calls; io collects the packets the calls would write.           *)
InitFrames ==
    /\ sbi = "ready"
    /\ ser = "open"
    /\ pc = "frames"
    /\ call = [name |-> "read_memory_block", args |-> <<>>]
    /\ result = NoResult
    /\ io = <<>>
    /\ addr_start = 0
    /\ blocks = 0
    /\ i = 0
    /\ data = <<>>
    /\ block_log = <<>>
    /\ session = NoSession
    /\ sweep = NoSweep
    /\ wire = NoWire
    /\ prep = NoPrep

BuildPacket ==
    /\ pc = "frames"
    /\ Len(io) < MaxFrames
    /\ \E addr \in FrameAddrs, n \in FrameCounts :
          /\ call' = [name |-> "read_memory_block", args |-> <<addr, n>>]
          /\ io' = Append(io, Write("command", ReadMemPacket(addr, n)))
    /\ UNCHANGED <<sbi, ser, pc, result, region_vars>>
    /\ UNCHANGED bench_vars

NextFrames == BuildPacket

SpecFrames == InitFrames /\ [][NextFrames]_vars

(* A run of calls on one healthy link.  session.rx is the input buffer of  *)
(* the link between calls; the device answers every command frame with    *)
(* its correct reply, and answers nothing to an acknowledgment.            *)

\* the device's correct reply to a frame of the client
DeviceReply(frame) ==
    IF frame = PingFrame THEN ACK
    ELSE IF frame = ChipIdFrame THEN <<0, 204, 6, 66, 176, 2, 144, 0>>
    ELSE IF frame = StatusFrame THEN StatusReply(COMMAND_RET_SUCCESS)
    ELSE IF Len(frame) = ReadMemSize /\ frame[3] = ReadMemCmd
    THEN WellFormedRead(
             ((frame[4] * 256 + frame[5]) * 256 + frame[6]) * 256 + frame[7],
             frame[9])
    ELSE <<>>

\* a flushInput that leaves the buffer as it was
InputKept(rx) == rx
\* the input buffer after self.ser.flushInput()
InputAfterFlush(rx) == <<>>

\* what self.ser.read(self.ser.in_waiting) returns in a call that finds rx
\* in the input buffer, flushes, writes frame and sleeps
Exchange(rx, frame) == InputAfterFlush(rx) \o DeviceReply(frame)

\* bytes already waiting in the input buffer when the run starts
StaleInputs == {<<>>, <<204>>, <<0, 204>>, <<0, 51>>}

InitSession ==
    /\ sbi = "ready"
    /\ ser = "open"
    /\ pc = "session"
    /\ call = NoCall
    /\ result = NoResult
    /\ io = <<>>
    /\ addr_start = 0
    /\ blocks = 0
    /\ i = 0
    /\ data = <<>>
    /\ block_log = <<>>
    /\ \E rx \in StaleInputs : session = [rx |-> rx, history |-> <<>>]
    /\ sweep = NoSweep
    /\ wire = NoWire
    /\ prep = NoPrep

\* the input buffer after a call with link operations log: the device's
\* reply to the acknowledgment written after the read, if one was written
InputAfterCall(log) ==
    IF log[Len(log)].op = "write" THEN DeviceReply(log[Len(log)].bytes)
    ELSE <<>>

\* the call named name, with outcome r, joins the run
Called(name, r) ==
    /\ call' = [name |-> name, args |-> <<>>]
    /\ io' = r.io
    /\ result' = r.ret
    /\ session' = [rx |-> InputAfterCall(r.io),
                   history |-> Append(session.history,
                                      [name |-> name, ret |-> r.ret])]
    /\ UNCHANGED <<sbi, ser, pc, region_vars, sweep, wire, prep>>

SessionPing ==
    /\ pc = "session"
    /\ Len(session.history) < MaxCalls
    /\ Called("ping", ping(Exchange(session.rx, PingFrame)))

SessionGetChipId ==
    /\ pc = "session"
    /\ Len(session.history) < MaxCalls
    /\ Called("get_chip_id", get_chip_id(Exchange(session.rx, ChipIdFrame)))

SessionGetStatus ==
    /\ pc = "session"
    /\ Len(session.history) < MaxCalls
    /\ Called("get_status", get_status(Exchange(session.rx, StatusFrame)))

NextSession ==
    \/ SessionPing
    \/ SessionGetChipId
    \/ SessionGetStatus

SpecSession == InitSession /\ [][NextSession]_vars

(* The glitch sweep of notebook 5 (5_ChipSHOUTER-PicoEMP.ipynb, lines      *)
(* 445-477) with thorough_reset_dut (lines 314-327).  The target is the    *)
(* environment: what ser.read(ser.in_waiting) returns after the 0xAA       *)
(* request is drawn from TargetReplies.  sweep.seen counts, per reply, the *)
(* attempts that read it, and sweep.resets the calls of                    *)
(* thorough_reset_dut; sweep.delay is its delay in hundredths of a second. *)

\* thorough_reset_dut(delay=0.05) and delay += 0.5, in hundredths of a second
ResetDelay == 5
DelayStep == 50

\* b"\x10'\x00\x00", the reply the sweep compares with
NormalReply == <<16, 39, 0, 0>>

\* int.from_bytes(b, 'little')
RECURSIVE IntFromBytesLittle(_)
IntFromBytesLittle(b) ==
    IF b = <<>> THEN 0 ELSE b[1] + 256 * IntFromBytesLittle(Tail(b))

\* replies of the target to the 0xAA request: none, the counter 10000, the
\* counter 9999, and the value 10000 in two and in five bytes
TargetReplies ==
    {<<>>, NormalReply, <<15, 39, 0, 0>>, <<16, 39>>, <<16, 39, 0, 0, 0>>}

InitSweep ==
    /\ sbi = "none"
    /\ ser = "open"
    /\ pc = "sweep"
    /\ call = NoCall
    /\ result = NoResult
    /\ io = <<>>
    /\ addr_start = 0
    /\ blocks = 0
    /\ i = 0
    /\ data = <<>>
    /\ block_log = <<>>
    /\ session = NoSession
    /\ sweep = [pc |-> "start", offset |-> 0, i |-> 0, crashes |-> 0,
                faults |-> 0, ret |-> <<>>, armed |-> FALSE, resets |-> 0,
                seen |-> [r \in TargetReplies |-> 0],
                delay |-> 0, tries |-> 0, rret |-> <<>>]
    /\ wire = NoWire
    /\ prep = NoPrep

client_vars ==
    <<sbi, ser, pc, call, result, io, region_vars, session, wire, prep>>

\* crashes = 0; faults = 0; pico.arm()  (lines 448-451); arm asserts that
\* the PicoEMP answered 'Device armed'
SweepStart ==
    /\ pc = "sweep"
    /\ sweep.pc = "start"
    /\ \E answered \in BOOLEAN :
          sweep' = IF answered
                   THEN [sweep EXCEPT !.pc = "loop", !.armed = TRUE]
                   ELSE [sweep EXCEPT !.pc = "aborted"]
    /\ UNCHANGED client_vars

\* the loop indices after one pass of the body of for i in range(repeats)
Advance(sw) ==
    IF sw.i + 1 < Repeats
    THEN [sw EXCEPT !.i = sw.i + 1]
    ELSE [sw EXCEPT !.i = 0, !.offset = sw.offset + 1]

\* a test that takes any reply at all for the normal one
RepliedAtAll(ret) == ret # <<>>
\* thorough_reset_dut's test, line 322: the reply's value is 10000
IsNormalValue(ret) == IntFromBytesLittle(ret) = 10000
\* the sweep's test, line 464: the reply is the four bytes 10 27 00 00
IsNormal(ret) == ret = NormalReply

\* the call thorough_reset_dut() of line 472: delay is the default 0.05,
\* no reply has been read yet
EnterReset(sw) ==
    [sw EXCEPT !.pc = "reset", !.resets = sw.resets + 1,
               !.delay = ResetDelay, !.tries = 0, !.rret = <<>>]

\* one attempt: lines 457-472 up to the call of thorough_reset_dut
Attempt ==
    /\ pc = "sweep"
    /\ sweep.pc = "loop"
    /\ sweep.offset < NumOffsets
    /\ \E ret \in TargetReplies :
          LET sw == [sweep EXCEPT !.ret = ret,
                                  !.seen[ret] = sweep.seen[ret] + 1]
          IN  sweep' =
                 IF ~IsNormal(ret)
                 THEN IF ret = <<>>
                      THEN EnterReset([sw EXCEPT !.crashes = sw.crashes + 1])
                      ELSE EnterReset([sw EXCEPT !.faults = sw.faults + 1])
                 ELSE Advance(sw)
    /\ UNCHANGED client_vars

\* delay += 0.5 before the next reset_dut(delay), line 323
Retry(sw) ==
    IF sw.tries < MaxRetries
    THEN [sw EXCEPT !.tries = sw.tries + 1, !.delay = sw.delay + DelayStep]
    ELSE sw

\* thorough_reset_dut, one round: reset_dut(delay), the 0xAA request and
\* its reply rret; the function returns when the reply's value is 10000 and
\* goes round again, with a longer delay, otherwise
ThoroughReset ==
    /\ pc = "sweep"
    /\ sweep.pc = "reset"
    /\ \E ret \in TargetReplies :
          sweep' = IF ~IsNormalValue(ret)
                   THEN Retry([sweep EXCEPT !.rret = ret])
                   ELSE Advance([sweep EXCEPT !.pc = "loop", !.rret = ret])
    /\ UNCHANGED client_vars

\* a round of thorough_reset_dut in which the target answers 10000
ResetAnswered ==
    /\ ThoroughReset
    /\ IsNormalValue(sweep'.rret)

\* pico.disarm() after the loops, line 477
SweepEnd ==
    /\ pc = "sweep"
    /\ sweep.pc = "loop"
    /\ sweep.offset >= NumOffsets
    /\ sweep' = [sweep EXCEPT !.pc = "finished", !.armed = FALSE]
    /\ UNCHANGED client_vars

NextSweep ==
    \/ SweepStart
    \/ Attempt
    \/ ThoroughReset
    \/ SweepEnd

SpecSweep == InitSweep /\ [][NextSweep]_vars

\* the sweep cell keeps running: a round of thorough_reset_dut that has
\* begun is carried out
SpecSweepLive == SpecSweep /\ WF_vars(ThoroughReset)

(* The same sweep cell, statement by statement, with the PicoEMP and the   *)
(* ChipWhisperer as environment: what the PicoEMP prints after a command   *)
(* is drawn from PicoAnswers, scope.io.tio_states[2] from TioStates (it    *)
(* reads 1 before the PicoEMP is armed), and a call into the serial or the *)
(* scope library either returns or raises.                                 *)
(* sweep.log lists the calls made so far, sweep.exc the exception that     *)
(* ended the cell.                                                         *)

\* b'...' in ret, for a text given line by line
Contains(marker, text) == \E k \in 1..Len(text) : text[k] = marker

\* what self.pico.read(self.pico.in_waiting) returns one second after a
\* command: nothing, the banner, or the answer to arm or to disarm
PicoAnswers ==
    {<<>>, <<"PicoEMP Commands">>, <<"arm", "Device armed">>,
     <<"disarm", "Device disarmed!">>}

\* scope.io.tio_states[2]: 0 when the ChipShouter is charged
TioStates == {0, 1}

\* the exceptions the calls of the loop body can end with: the scope's USB
\* link (wait_for_hv, scope.arm), the target's serial port, or the user
\* interrupting the cell
LoopErrors(at) ==
    CASE at \in {"loop", "scope_arm"} -> {"OSError", "KeyboardInterrupt"}
      [] at \in {"request", "reset"} -> {"SerialException", "KeyboardInterrupt"}
      [] OTHER -> {}

InitEmfi ==
    /\ sbi = "none"
    /\ ser = "open"
    /\ pc = "sweep"
    /\ call = NoCall
    /\ result = NoResult
    /\ io = <<>>
    /\ addr_start = 0
    /\ blocks = 0
    /\ i = 0
    /\ data = <<>>
    /\ block_log = <<>>
    /\ session = NoSession
    /\ sweep = [pc |-> "start", offset |-> 0, i |-> 0, crashes |-> 0,
                faults |-> 0, ret |-> <<>>, armed |-> FALSE, resets |-> 0,
                delay |-> 0, tries |-> 0, rret |-> <<>>,
                tio |-> 1, log |-> <<>>, exc |-> ""]
    /\ wire = NoWire
    /\ prep = NoPrep

\* the cell ends with an exception: nothing after the raising statement runs
Stopped(sw, e) == [sw EXCEPT !.pc = "aborted", !.exc = e]

\* pico.arm() of line 451: write b'arm\r\n', sleep, assert b'Device armed'
\* in the answer (lines 173-176)
PicoArm ==
    /\ pc = "sweep"
    /\ sweep.pc = "start"
    /\ \E answer \in PicoAnswers :
          LET sw == [sweep EXCEPT !.log = sweep.log \o <<"pico.arm">>]
          IN  sweep' =
                 IF Contains("Device armed", answer)
                 THEN [sw EXCEPT !.pc = "loop", !.armed = TRUE,
                                 !.log = sw.log \o <<"armed">>]
                 ELSE Stopped(sw, "AssertionError")
    /\ UNCHANGED client_vars

\* a wait that returns whatever the pin shows
AnyTio(tio) == TRUE
\* the test of wait_for_hv's loop, line 134: it ends when tio_states[2] is 0
Charged(tio) == tio = 0

\* wait_for_hv() of line 457 (lines 133-135): look at tio_states[2], sleep
\* and look again while it is not 0; sweep.tio is the value last seen
WaitForHv ==
    /\ pc = "sweep"
    /\ sweep.pc = "loop"
    /\ sweep.offset < NumOffsets
    /\ \E tio \in TioStates :
          sweep' = IF ~Charged(tio)
                   THEN [sweep EXCEPT !.tio = tio]
                   ELSE [sweep EXCEPT !.pc = "scope_arm", !.tio = tio,
                                      !.log = sweep.log \o <<"wait_for_hv">>]
    /\ UNCHANGED client_vars

\* scope.arm() of line 459
ScopeArm ==
    /\ pc = "sweep"
    /\ sweep.pc = "scope_arm"
    /\ sweep' = [sweep EXCEPT !.pc = "request",
                              !.log = sweep.log \o <<"scope.arm">>]
    /\ UNCHANGED client_vars

\* lines 460-472: the 0xAA request, the reply, the counters, and the call of
\* thorough_reset_dut when the reply is not the normal one
Measure ==
    /\ pc = "sweep"
    /\ sweep.pc = "request"
    /\ \E ret \in TargetReplies :
          LET sw == [sweep EXCEPT !.ret = ret,
                                  !.log = sweep.log \o <<"ser.write", "ser.read">>]
          IN  sweep' =
                 IF ~IsNormal(ret)
                 THEN IF ret = <<>>
                      THEN EnterReset([sw EXCEPT !.crashes = sw.crashes + 1])
                      ELSE EnterReset([sw EXCEPT !.faults = sw.faults + 1])
                 ELSE Advance([sw EXCEPT !.pc = "loop"])
    /\ UNCHANGED client_vars

\* a call of the loop body raises: the cell has no try around the loops
\* (lines 453-472), so the exception leaves the cell at once
LoopRaises ==
    /\ pc = "sweep"
    /\ sweep.pc \in {"loop", "scope_arm", "request", "reset"}
    /\ sweep.pc = "loop" => sweep.offset < NumOffsets
    /\ \E e \in LoopErrors(sweep.pc) : sweep' = Stopped(sweep, e)
    /\ UNCHANGED client_vars

\* pico.disarm() of line 477: write b'disarm\r\n', sleep, assert
\* b'Device disarmed!' in the answer (lines 179-182)
PicoDisarm ==
    /\ pc = "sweep"
    /\ sweep.pc = "loop"
    /\ sweep.offset >= NumOffsets
    /\ \E answer \in PicoAnswers :
          LET sw == [sweep EXCEPT !.log = sweep.log \o <<"pico.disarm">>]
          IN  sweep' =
                 IF Contains("Device disarmed!", answer)
                 THEN [sw EXCEPT !.pc = "finished", !.armed = FALSE,
                                 !.log = sw.log \o <<"disarmed">>]
                 ELSE Stopped(sw, "AssertionError")
    /\ UNCHANGED client_vars

NextEmfi ==
    \/ PicoArm
    \/ WaitForHv
    \/ ScopeArm
    \/ Measure
    \/ ThoroughReset
    \/ LoopRaises
    \/ PicoDisarm

SpecEmfi == InitEmfi /\ [][NextEmfi]_vars

(* The erase and flash cell of notebook 5 (lines 274-292).  dslite.sh is   *)
(* the environment: the standard output of a run, output[0], is a text of  *)
(* at most MaxLines lines drawn from ToolLines.  prep.log lists the        *)
(* commands run and the power steps taken, prep.printed what was printed.  *)

MaxLines == 2

ToolLines == {"Device Unlocked", "Board Reset Complete", "Failed"}

\* the texts of at most n lines
RECURSIVE Texts(_)
Texts(n) ==
    IF n = 0 THEN {<<>>}
    ELSE Texts(n - 1) \cup
         {Append(t, l) : t \in {u \in Texts(n - 1) : Len(u) = n - 1},
                         l \in ToolLines}

ToolOutputs == Texts(MaxLines)

\* scope.io before the cell runs
InitPrepare ==
    /\ sbi = "none"
    /\ ser = "closed"
    /\ pc = "prepare"
    /\ call = NoCall
    /\ result = NoResult
    /\ io = <<>>
    /\ addr_start = 0
    /\ blocks = 0
    /\ i = 0
    /\ data = <<>>
    /\ block_log = <<>>
    /\ session = NoSession
    /\ sweep = NoSweep
    /\ wire = NoWire
    /\ \E n \in {"high", "high_z"}, p \in BOOLEAN :
          prep = [pc |-> "erase", nrst |-> n, target_pwr |-> p,
                  output |-> <<>>, printed |-> <<>>, log |-> <<>>]

prep_frame ==
    <<sbi, ser, pc, call, result, io, region_vars, session, sweep, wire>>

Ran(what, out) == [what |-> what, out |-> out]

\* a cell that goes on to flash whenever the erase printed anything
AnyOutput(out) == out # <<>>
\* the test of line 277, b'Device Unlocked' not in output[0], negated
DeviceUnlocked(out) == Contains("Device Unlocked", out)

\* the test of line 289
BoardResetComplete(out) == Contains("Board Reset Complete", out)

\* lines 274-279: run erase_cmd; without 'Device Unlocked' in its output
\* print the error and the output, and do nothing else
Erase ==
    /\ pc = "prepare"
    /\ prep.pc = "erase"
    /\ \E out \in ToolOutputs :
          LET p == [prep EXCEPT !.output = out,
                                !.log = prep.log \o <<Ran("erase", out)>>]
          IN  prep' =
                 IF ~DeviceUnlocked(out)
                 THEN [p EXCEPT !.pc = "done",
                                !.printed = <<"There was an error while trying to erase the microcontroller">>]
                 ELSE [p EXCEPT !.pc = "power_off"]
    /\ UNCHANGED prep_frame

\* lines 281-283: scope.io.nrst = 'low'; scope.io.target_pwr = False; sleep
PowerOff ==
    /\ pc = "prepare"
    /\ prep.pc = "power_off"
    /\ prep' = [prep EXCEPT !.pc = "power_on", !.nrst = "low",
                            !.target_pwr = FALSE,
                            !.log = prep.log \o <<Ran("power off", <<>>)>>]
    /\ UNCHANGED prep_frame

\* lines 284-285: scope.io.target_pwr = True; scope.io.nrst = 'high'
PowerOn ==
    /\ pc = "prepare"
    /\ prep.pc = "power_on"
    /\ prep' = [prep EXCEPT !.pc = "flash", !.nrst = "high",
                            !.target_pwr = TRUE,
                            !.log = prep.log \o <<Ran("power on", <<>>)>>]
    /\ UNCHANGED prep_frame

\* lines 287-292: run flash_cmd and report by 'Board Reset Complete'
Flash ==
    /\ pc = "prepare"
    /\ prep.pc = "flash"
    /\ \E out \in ToolOutputs :
          prep' = [prep EXCEPT
                      !.pc = "done",
                      !.output = out,
                      !.log = prep.log \o <<Ran("flash", out)>>,
                      !.printed =
                          IF BoardResetComplete(out)
                          THEN <<"Target has been flashed!">>
                          ELSE <<"Error flashing target. Check your connections and try again.">>]
    /\ UNCHANGED prep_frame

NextPrepare ==
    \/ Erase
    \/ PowerOff
    \/ PowerOn
    \/ Flash

SpecPrepare == InitPrepare /\ [][NextPrepare]_vars

(* The methods run one link operation at a time against a device that is  *)
(* a process of its own.  The device answers every command frame           *)
(* correctly, but each byte of an answer reaches the input buffer at a     *)
(* time of the device's choosing.  wire.tx holds the bytes sent and not    *)
(* yet delivered, wire.rx the input buffer; every byte carries the number  *)
(* of the command it answers.  wire.n numbers the command transactions,    *)
(* wire.resp is what the last read returned and wire.of the number of the  *)
(* command that read it.                                                   *)

Tagged(bytes, n) == [k \in 1..Len(bytes) |-> [b |-> bytes[k], of |-> n]]
Untagged(tb) == [k \in 1..Len(tb) |-> tb[k].b]

\* the methods called, read_memory_block as read_memory_block(0, 1)
AsyncMethods == {"ping", "get_status", "get_chip_id", "read_memory_block"}

\* the frame of the command transaction cmd
AsyncFrame(cmd) ==
    IF cmd = "ping" THEN PingFrame
    ELSE IF cmd = "get_status" THEN StatusFrame
    ELSE IF cmd = "get_chip_id" THEN ChipIdFrame
    ELSE ReadMemPacket(0, 1)

InitAsync ==
    /\ sbi = "ready"
    /\ ser = "open"
    /\ pc = "async"
    /\ call = NoCall
    /\ result = NoResult
    /\ io = <<>>
    /\ addr_start = 0
    /\ blocks = 0
    /\ i = 0
    /\ data = <<>>
    /\ block_log = <<>>
    /\ session = NoSession
    /\ sweep = NoSweep
    /\ wire = [step |-> "idle", name |-> "", cmd |-> "", n |-> 0,
               rx |-> <<>>, tx |-> <<>>, resp |-> <<>>, of |-> 0,
               first |-> <<>>]
    /\ prep = NoPrep

async_frame == <<sbi, ser, pc, io, region_vars, session, sweep, prep>>

\* the notebook calls a method of the client
AsyncCall ==
    /\ pc = "async"
    /\ wire.step = "idle"
    /\ wire.n < MaxAsyncCalls
    /\ \E name \in AsyncMethods :
          /\ call' = [name |-> name,
                      args |-> IF name = "read_memory_block"
                               THEN <<0, 1>> ELSE <<>>]
          /\ wire' = [wire EXCEPT
                          !.step = "called", !.name = name, !.n = wire.n + 1,
                          !.cmd = IF name = "read_memory_block"
                                  THEN "read_memory" ELSE name]
    /\ result' = NoResult
    /\ UNCHANGED async_frame

\* self.ser.flushInput()
AsyncFlush ==
    /\ pc = "async"
    /\ wire.step = "called"
    /\ wire' = [wire EXCEPT !.step = "flushed",
                            !.rx = Tagged(InputAfterFlush(Untagged(wire.rx)),
                                          0)]
    /\ UNCHANGED <<call, result, async_frame>>

\* self.ser.write(frame): the device gets the frame and sends its answer
AsyncWrite ==
    /\ pc = "async"
    /\ wire.step = "flushed"
    /\ wire' = [wire EXCEPT
                    !.step = "written",
                    !.tx = wire.tx \o Tagged(DeviceReply(AsyncFrame(wire.cmd)),
                                             wire.n)]
    /\ UNCHANGED <<call, result, async_frame>>

\* time.sleep(0.1) returns
AsyncSleep ==
    /\ pc = "async"
    /\ wire.step = "written"
    /\ wire' = [wire EXCEPT !.step = "slept"]
    /\ UNCHANGED <<call, result, async_frame>>

\* the outcome of the method name whose last read returned resp
AsyncOutcome(name, first, resp) ==
    IF name = "ping" THEN ping(resp).ret
    ELSE IF name = "get_status" THEN get_status(resp).ret
    ELSE IF name = "get_chip_id" THEN get_chip_id(resp).ret
    ELSE read_memory_block(0, 1, first, resp).ret

\* self.ser.read(self.ser.in_waiting) and the rest of the method: the
\* acknowledgment, to which the device answers nothing, and the return or,
\* in read_memory_block after the read command, the call of get_status
AsyncRead ==
    /\ pc = "async"
    /\ wire.step = "slept"
    /\ IF wire.cmd = "read_memory"
       THEN /\ wire' = [wire EXCEPT
                            !.step = "called", !.cmd = "get_status",
                            !.n = wire.n + 1, !.rx = <<>>,
                            !.resp = wire.rx, !.of = wire.n,
                            !.first = Untagged(wire.rx)]
            /\ UNCHANGED result
       ELSE /\ wire' = [wire EXCEPT
                            !.step = "idle", !.rx = <<>>,
                            !.resp = wire.rx, !.of = wire.n]
            /\ result' = AsyncOutcome(wire.name, wire.first,
                                      Untagged(wire.rx))
    /\ UNCHANGED <<call, async_frame>>

\* the device: the next byte sent reaches the input buffer
Deliver ==
    /\ pc = "async"
    /\ wire.tx # <<>>
    /\ wire' = [wire EXCEPT !.rx = Append(wire.rx, Head(wire.tx)),
                            !.tx = Tail(wire.tx)]
    /\ UNCHANGED <<call, result, async_frame>>

NextAsync ==
    \/ AsyncCall
    \/ AsyncFlush
    \/ AsyncWrite
    \/ AsyncSleep
    \/ AsyncRead
    \/ Deliver

SpecAsync == InitAsync /\ [][NextAsync]_vars

---------------------------------------------------------------------------
(* Reading the log of link operations *)

Done(name) == pc = "done" /\ call.name = name

\* the value of four bytes, most significant first
FromBytesBig(b) == ((b[1] * 256 + b[2]) * 256 + b[3]) * 256 + b[4]

IsCommand(e) == e.op = "write" /\ e.site = "command"
IsReadMemFrame(e) == IsCommand(e) /\ Len(e.bytes) >= 3 /\ e.bytes[3] = 42

\* the (address, count) of every read_memory frame written, in order
ReadFrames(log) ==
    LET fs == SelectSeq(log, IsReadMemFrame)
    IN  [k \in 1..Len(fs) |->
            [addr  |-> FromBytesBig(SubSeq(fs[k].bytes, 4, 7)),
             count |-> fs[k].bytes[9]]]

\* every read returned the device's well-formed answer to the command
\* written before it, and every status was SUCCESS
WellAnswered(log) ==
    \A j \in 1..Len(log) :
        log[j].op = "read" =>
            /\ j >= 3
            /\ IsCommand(log[j - 2])
            /\ LET frame == log[j - 2].bytes
               IN  IF frame = <<3, 35, 35>>
                   THEN log[j].bytes = <<0, 204, 3, 64, 64>>
                   ELSE /\ IsReadMemFrame(log[j - 2])
                        /\ log[j].bytes =
                             WellFormedRead(FromBytesBig(SubSeq(frame, 4, 7)),
                                            frame[9])

RECURSIVE ConcatBlocks(_)
ConcatBlocks(log) ==
    IF log = <<>> THEN <<>> ELSE log[1].bytes \o ConcatBlocks(Tail(log))

IsPrefix(s, t) == Len(s) <= Len(t) /\ s = SubSeq(t, 1, Len(s))

\* the block reads the region read of [start, stop) is to issue
ExpectedFrames(start, stop) ==
    LET q == (stop - start) \div 253
    IN  [k \in 1..(q + 1) |->
            IF k <= q
            THEN [addr |-> start + 253 * (k - 1), count |-> 253]
            ELSE [addr |-> start + 253 * q, count |-> (stop - start) % 253]]

\* addr_start after k iterations of the loop body's addr_start += 253
\* (by halves; the test a # a only makes TLC evaluate a before descending)
RECURSIVE AddrAfter(_, _)
AddrAfter(a, k) ==
    IF k <= 0 \/ a # a THEN a
    ELSE IF k = 1 THEN NextAddr(a)
    ELSE AddrAfter(AddrAfter(a, k \div 2), k - (k \div 2))

---------------------------------------------------------------------------
(* The claims *)

\* C1: for start < stop, when every block read is answered with a
\* well-formed response and SUCCESS, read_memory_region(start, stop)
\* returns exactly stop - start bytes: the blocks' payloads concatenated in
\* ascending address order (which are the device's bytes of [start, stop)).
C1_RegionReturnsRange ==
    (Done("read_memory_region") /\ call.args[1] < call.args[2]
        /\ WellAnswered(io))
    => /\ result.kind = "return"
       /\ Len(result.value) = call.args[2] - call.args[1]
       /\ result.value = ConcatBlocks(block_log)
       /\ \A k \in 1..(Len(block_log) - 1) :
              /\ block_log[k].addr < block_log[k + 1].addr
              /\ block_log[k].addr + Len(block_log[k].bytes)
                     = block_log[k + 1].addr
       /\ result.value = MemBytes(call.args[1], call.args[2] - call.args[1])

C1_Witness ==
    /\ Done("read_memory_region")
    /\ call.args[1] < call.args[2]
    /\ WellAnswered(io)
    /\ result.kind = "return"
    /\ Len(block_log) = 3
    /\ Len(result.value) = 2 * 253 + 36

\* C2: read_memory_region(start, stop) issues (stop - start) div 253 block
\* reads of count 253, the k-th at start + 253*k, then one final block read
\* of count (stop - start) mod 253 at start + 253*((stop - start) div 253);
\* a run that stops early has issued a prefix of them.  For
\* (0x10000000, 0x1001cc00) that is 465 full reads and a final one of 115
\* bytes, for (0x10000000, 0x10040000) 1036 full reads and one of 36.
C2_RegionFrames ==
    /\ (call.name = "read_memory_region" /\ call.args[1] <= call.args[2])
       => /\ IsPrefix(ReadFrames(io),
                      ExpectedFrames(call.args[1], call.args[2]))
          /\ (pc = "done" /\ result.kind = "return")
             => ReadFrames(io) = ExpectedFrames(call.args[1], call.args[2])
    /\ RegionBlocks(268435456, 268553216) = 465
    /\ 268553216 - AddrAfter(268435456, 465) = 115
    /\ RegionBlocks(268435456, 268697600) = 1036
    /\ 268697600 - AddrAfter(268435456, 1036) = 36

C2_Witness ==
    /\ Done("read_memory_region")
    /\ result.kind = "return"
    /\ call.args[2] - call.args[1] = 2 * 253 + 36
    /\ Len(ReadFrames(io)) = 3
    /\ ReadFrames(io)[3] = [addr |-> call.args[1] + 506, count |-> 36]

\* C3: read_memory_block(address, count) with count > 253 fails without
\* writing, flushing or reading the link.
C3_CountAbove253FailsFast ==
    (Done("read_memory_block") /\ call.args[2] > 253)
    => /\ result.kind = "raise"
       /\ io = <<>>

\* C4: read_memory_region(start, stop) with stop < start fails before any
\* byte is written to or read from the link.
C4_NegativeRangeRejected ==
    (call.name = "read_memory_region" /\ call.args[2] < call.args[1])
    => /\ io = <<>>
       /\ block_log = <<>>
       /\ pc = "done" => result.kind = "raise"

C4_Witness ==
    /\ Done("read_memory_region")
    /\ call.args[2] < call.args[1]
    /\ result.exc = "ValueError"
    /\ io = <<>>

\* the bytes a hex string stands for
HexValue(d) == CHOOSE v \in 0..15 : HexDigit[v + 1] = d
UnHex(h) ==
    [k \in 1..(Len(h) \div 2) |->
        16 * HexValue(h[2 * k - 1]) + HexValue(h[2 * k])]

\* C5: construction succeeds if and only if the bytes read after the sync
\* pattern 55 55 are exactly 00 CC; for any other reply it fails with the
\* handshake error, which reports the received bytes hex-encoded, the sync
\* pattern is written once (no retry), and no client exists afterwards;
\* no method ever runs without a constructed client.
C5_HandshakeExact ==
    /\ Done("__init__") =>
         /\ Len(io) >= 4
         /\ io[1].op = "open"
         /\ io[2] = [op |-> "write", site |-> "sync", bytes |-> <<85, 85>>]
         /\ io[4].op = "read"
         /\ (result.kind = "return") <=> (io[4].bytes = <<0, 204>>)
         /\ (io[4].bytes = <<0, 204>>) => sbi = "ready"
         /\ (io[4].bytes # <<0, 204>>) =>
              /\ result.kind = "raise"
              /\ result.exc = "ValueError"
              /\ result.msg =
                   "Expected the bootloader to reply with 00CC, instead it replied with: "
              /\ Len(result.detail) = 2 * Len(io[4].bytes)
              /\ UnHex(result.detail) = io[4].bytes
              /\ Len(io) = 4
              /\ sbi = "none"
    /\ (call.name \notin {"", "__init__"}) => sbi = "ready"
    /\ (sbi = "none" /\ pc = "idle") => ~ENABLED Ping

C5_Witness ==
    /\ Done("__init__")
    /\ io[4].bytes = <<0, 204, 0>>
    /\ result.kind = "raise"
    /\ result.detail = <<"0", "0", "c", "c", "0", "0">>
    /\ sbi = "none"

\* the status byte get_status returned inside a direct read_memory_block
\* call (io[9] is the read of the status transaction), -1 when there is none
StatusReturned ==
    IF Done("read_memory_block") /\ Len(io) >= 9 /\ io[9].bytes # <<>>
    THEN io[9].bytes[Len(io[9].bytes)]
    ELSE -1

\* C6: for every status byte other than SUCCESS (0x40) returned by the
\* get_status() that follows a block read, read_memory_block fails with the
\* status error carrying that code (by name or by value), whether it is one
\* of 0x41..0x44 or any other byte.
C6_StatusErrorCarriesCode ==
    (StatusReturned # -1 /\ StatusReturned # 64)
    => /\ result.kind = "raise"
       /\ result.exc = "ValueError"
       /\ result.msg = "ERROR! status:"
       /\ \/ \E k \in 1..Len(status_val) :
                /\ status_val[k].val = StatusReturned
                /\ result.detail = <<status_val[k].name>>
          \/ result.detail = Repr(StatusReturned)

\* fewer than count bytes could be sliced from the read response of a
\* direct read_memory_block call
ShortPayload ==
    /\ Done("read_memory_block")
    /\ io # <<>>
    /\ Len(Extract(io[4].bytes, call.args[2])) # call.args[2]

IncompleteTransfer ==
    /\ result.kind = "raise"
    /\ result.exc = "AssertionError"
    /\ result.msg = "Did not receive all bytes..."

\* C7 as claimed: whenever fewer than count bytes can be sliced from the
\* response, read_memory_block fails with the incomplete-transfer error.
C7_ShortAlwaysIncompleteTransfer == ShortPayload => IncompleteTransfer

\* C7, amended: read_memory_block never returns a payload whose length
\* differs from count; when fewer than count bytes can be sliced the call
\* fails, with the incomplete-transfer error if get_status returned SUCCESS
\* and with the error of the status check, which comes first, otherwise.
C7_NeverReturnsShort ==
    /\ (Done("read_memory_block") /\ result.kind = "return")
       => Len(result.value) = call.args[2]
    /\ \A k \in 1..Len(block_log) :
           Len(block_log[k].bytes) = block_log[k].count
    /\ ShortPayload =>
         /\ result.kind = "raise"
         /\ (StatusReturned = 64) => IncompleteTransfer
         /\ (StatusReturned # 64) => ~IncompleteTransfer

C7_Witness ==
    /\ ShortPayload
    /\ StatusReturned = 64
    /\ IncompleteTransfer
    /\ call.args[2] = 253
    /\ Len(Extract(io[4].bytes, 253)) = 252

\* the (address, count) a read_memory frame of the current call may carry
FrameTargets ==
    IF call.name = "read_memory_block"
    THEN {[addr |-> call.args[1], count |-> call.args[2]]}
    ELSE IF call.name = "read_memory_region" /\ call.args[1] <= call.args[2]
    THEN {ExpectedFrames(call.args[1], call.args[2])[k] :
              k \in 1..(((call.args[2] - call.args[1]) \div 253) + 1)}
    ELSE {}

\* C8: every command frame written is [size][checksum][opcode][params...]
\* with checksum = (sum of opcode and params) mod 256: 03 28 28 for
\* get_chip_id, 03 20 20 for ping, 03 23 23 for get_status, and for
\* read_memory the body 0x2A, the address as 4 big-endian bytes, access
\* type 0x00 and the count byte.
C8_FrameLayout ==
    \A j \in 1..Len(io) :
        IsCommand(io[j]) =>
            LET f == io[j].bytes
            IN  /\ Len(f) >= 3
                /\ \A k \in 1..Len(f) : f[k] \in 0..255
                /\ \/ /\ f = <<3, 40, 40>>
                      /\ call.name \in {"__init__", "get_chip_id"}
                   \/ /\ f = <<3, 32, 32>>
                      /\ call.name = "ping"
                   \/ /\ f = <<3, 35, 35>>
                      /\ call.name \in {"get_status", "read_memory_block",
                                        "read_memory_region"}
                   \/ /\ Len(f) = 9
                      /\ f[3] = 42
                      /\ f[8] = 0
                      /\ [addr  |-> ((f[4] * 256 + f[5]) * 256 + f[6]) * 256 + f[7],
                          count |-> f[9]] \in FrameTargets
                      /\ f[2] = (f[3] + f[4] + f[5] + f[6] + f[7] + f[8] + f[9]) % 256

C8_Witness ==
    /\ Done("read_memory_block")
    /\ call.args = <<268435457, 253>>
    /\ Len(io) >= 2
    /\ io[2] = [op |-> "write", site |-> "command",
                bytes |-> <<9, 56, 42, 16, 0, 0, 1, 0, 253>>]

\* the positions at which two packets of equal length differ
DiffPositions(f, g) == {k \in 1..Len(f) : f[k] # g[k]}

\* C9: the checksum byte of a read_memory frame depends on the frame body
\* only: two calls with the same (address, count) give the same checksum
\* byte, and two bodies that differ in exactly one parameter byte (an
\* address byte or the count byte) give different checksum bytes.
C9_ChecksumOfBody ==
    \A j, k \in 1..Len(io) :
        (IsReadMemFrame(io[j]) /\ IsReadMemFrame(io[k])) =>
            LET f == io[j].bytes
                g == io[k].bytes
                d == DiffPositions(SubSeq(f, 3, 9), SubSeq(g, 3, 9))
            IN  /\ (d = {}) => f[2] = g[2]
                /\ (Cardinality(d) = 1 /\ d \subseteq {2, 3, 4, 5, 7})
                   => f[2] # g[2]

C9_Witness ==
    /\ pc = "frames"
    /\ Len(io) = 2
    /\ io[1].bytes = <<9, 43, 42, 0, 0, 0, 0, 0, 1>>
    /\ io[2].bytes = <<9, 171, 42, 0, 0, 0, 128, 0, 1>>

\* C10: ping() returns if and only if the bytes read as its response are
\* exactly the ACK token 00 CC; for every other response (empty, NACK,
\* ACK followed by more bytes, ...) it fails with the
\* ping-not-acknowledged error.
C10_PingExact ==
    Done("ping") =>
        /\ Len(io) = 4
        /\ io[2] = [op |-> "write", site |-> "command", bytes |-> <<3, 32, 32>>]
        /\ io[4].op = "read"
        /\ (result.kind = "return") <=> (io[4].bytes = <<0, 204>>)
        /\ (io[4].bytes # <<0, 204>>) =>
             /\ result.kind = "raise"
             /\ result.exc = "AssertionError"
             /\ result.msg = "Ping command was not acknowledged by device"

C10_Witness ==
    /\ Done("ping")
    /\ io[4].bytes = <<0, 204, 0>>
    /\ result.kind = "raise"

\* C11: on a healthy link every ping of a run of calls returns the ACK, two
\* pings in a row included, and every get_chip_id returns the bytes that a
\* get_chip_id on a fresh link returns, whatever calls went before it.
C11_PingsLeaveChipIdAlone ==
    pc = "session" =>
        \A k \in 1..Len(session.history) :
            LET h == session.history[k]
            IN  /\ h.name = "ping" => h.ret = Return(ACK)
                /\ h.name = "get_chip_id" =>
                       h.ret = get_chip_id(DeviceReply(ChipIdFrame)).ret

\* two pings and then get_chip_id, all three returned
C11_Witness ==
    /\ pc = "session"
    /\ Len(session.history) = 3
    /\ session.history[1].ret = Return(ACK)
    /\ session.history[2].ret = Return(ACK)
    /\ session.history[1].name = "ping"
    /\ session.history[2].name = "ping"
    /\ session.history[3].name = "get_chip_id"
    /\ session.history[3].ret = Return(<<0, 204, 6, 66, 176, 2, 144, 0>>)

\* the command frames written among the first k operations of log whose
\* response has not been read by operation k
Outstanding(log, k) ==
    {j \in 1..k : IsCommand(log[j]) /\ \A m \in (j + 1)..k : log[m].op # "read"}

\* C12: the client never pipelines: at every point of every call at most one
\* command frame is outstanding, so between two command frames the response
\* to the first has been read (the status query of read_memory_block and
\* the block reads of read_memory_region included), and no frame remains
\* outstanding when control is back in the notebook or in the region loop.
C12_NoPipelining ==
    /\ \A k \in 1..Len(io) : Cardinality(Outstanding(io, k)) <= 1
    /\ \A j \in 1..Len(io), k \in 1..Len(io) :
           (j < k /\ IsCommand(io[j]) /\ IsCommand(io[k])) =>
               \E m \in (j + 1)..(k - 1) : io[m].op = "read"
    /\ pc \in {"idle", "done", "region_loop"} => Outstanding(io, Len(io)) = {}

\* a region read that wrote two block reads and their two status queries
C12_Witness ==
    /\ Done("read_memory_region")
    /\ Len(SelectSeq(io, IsCommand)) >= 4
    /\ Len(ReadFrames(io)) >= 2

\* the k-th block read of log: its frame, the two replies read, and the
\* outcome read_memory_block gives for them
BlockRead(log, k) ==
    LET g == SubSeq(log, 10 * (k - 1) + 1, 10 * k)
        a == FromBytesBig(SubSeq(g[2].bytes, 4, 7))
        n == g[2].bytes[9]
    IN  [addr |-> a, count |-> n,
         ret |-> read_memory_block(a, n, g[4].bytes, g[9].bytes).ret]

\* C13: in read_memory_region a block read that fails ends the region read
\* with that block's error: it is the last block read written, the error
\* is the caller's outcome, and no data is returned; a final block whose
\* count is refused before any I/O fails the region read as well.
C13_RegionFailurePropagates ==
    call.name = "read_memory_region" =>
        /\ \A k \in 1..(Len(io) \div 10) :
               BlockRead(io, k).ret.kind = "raise" =>
                   /\ pc = "done"
                   /\ k = Len(io) \div 10
                   /\ Len(ReadFrames(io)) = k
                   /\ result = BlockRead(io, k).ret
                   /\ result.value = <<>>
                   /\ Len(block_log) = k - 1
        /\ (pc = "done" /\ ~ByteInRange(call.args[2] - addr_start)) =>
               /\ result.kind = "raise"
               /\ result.value = <<>>

\* the second block read of a region read failed after the first succeeded
C13_Witness ==
    /\ Done("read_memory_region")
    /\ result.kind = "raise"
    /\ Len(block_log) = 1
    /\ Len(io) = 20
    /\ BlockRead(io, 1).ret.kind = "return"
    /\ BlockRead(io, 2).ret = result
    /\ blocks = 2

\* the call failed on a framing fault: a handshake reply other than the
\* ACK, a ping reply other than the ACK, or a truncated block transfer
FramingFailure ==
    /\ result.kind = "raise"
    /\ \/ Done("__init__")
       \/ Done("ping")
       \/ result.msg = "Did not receive all bytes..."

\* the call failed on a device status other than SUCCESS
DeviceFailure ==
    /\ result.kind = "raise"
    /\ result.msg = "ERROR! status:"

\* C14: failures come in two kinds: every framing fault (bad handshake
\* reply, unacknowledged ping, truncated transfer) is reported with one and
\* the same kind of error, and that kind is not the kind a device status
\* other than SUCCESS is reported with.
C14_TwoErrorKinds ==
    /\ FramingFailure => result.exc = ping(NACK).ret.exc
    /\ FramingFailure => result.exc # StatusError(65).exc
    /\ DeviceFailure => result.exc = StatusError(65).exc

\* the operations of log that open the link
Opens(log) == SelectSeq(log, LAMBDA e : e.op = "open")

\* C15: the link is opened exactly once per client (once by the
\* constructor, never by a method), and after a fatal protocol error, a
\* handshake reply other than 00 CC, the link is closed.
C15_LinkClosedAfterFatalError ==
    /\ Done("__init__") => Len(Opens(io)) = 1
    /\ call.name # "__init__" => Len(Opens(io)) = 0
    /\ (Done("__init__") /\ result.kind = "raise") => ser = "closed"

\* the number of attempts so far whose reply is in R
RECURSIVE SeenIn(_)
SeenIn(R) ==
    IF R = {} THEN 0
    ELSE LET r == CHOOSE x \in R : TRUE
         IN  sweep.seen[r] + SeenIn(R \ {r})

\* the replies that are no output, that carry the counter value 10000, and
\* that carry another counter value
NoOutput == {r \in TargetReplies : r = <<>>}
Counter10000 == {r \in TargetReplies : r # <<>> /\ IntFromBytesLittle(r) = 10000}
CounterOther == {r \in TargetReplies : r # <<>> /\ IntFromBytesLittle(r) # 10000}

\* C16: in the sweep every attempt is of exactly one class: normal (reply
\* with counter value 10000: no counter changes, no reset), crash (no
\* output: crashes is incremented) or fault (reply with another counter
\* value: faults is incremented); thorough_reset_dut is called in exactly
\* the crash and fault cases.  So crashes counts the attempts without
\* output, faults the attempts whose counter value differs from 10000, and
\* the resets are as many as both together.
C16_AttemptClassified ==
    pc = "sweep" =>
        /\ sweep.crashes = SeenIn(NoOutput)
        /\ sweep.faults = SeenIn(CounterOther)
        /\ sweep.resets = SeenIn(NoOutput) + SeenIn(CounterOther)
        /\ sweep.pc = "reset" => sweep.ret \notin Counter10000

\* the four methods that run a command transaction
Transacting == {"get_chip_id", "ping", "get_status", "read_memory_block"}

\* C17: get_chip_id, ping, get_status and read_memory_block each flush the
\* input, write the command frame, wait, and read, in that order and with
\* nothing in between, in every call that reaches the link; the status
\* query inside read_memory_block and the block reads of a region read
\* follow the same order.
C17_FlushWriteSleepRead ==
    /\ \A j \in 1..Len(io) :
           IsCommand(io[j]) =>
               /\ j >= 2
               /\ j + 2 <= Len(io)
               /\ io[j - 1].op = "flushInput"
               /\ io[j + 1].op = "sleep"
               /\ io[j + 2].op = "read"
    /\ \A j \in 1..Len(io) :
           (call.name # "__init__"
              /\ io[j].op \in {"flushInput", "sleep", "read"}) =>
               \E k \in (j - 3)..(j + 1) :
                   /\ k >= 1 /\ k + 3 <= Len(io)
                   /\ io[k].op = "flushInput"
                   /\ IsCommand(io[k + 1])
                   /\ io[k + 2].op = "sleep"
                   /\ io[k + 3].op = "read"
                   /\ j \in k..(k + 3)
    /\ (pc = "done" /\ call.name \in Transacting /\ io # <<>>) =>
           /\ Len(io) >= 4
           /\ io[1].op = "flushInput"
           /\ IsCommand(io[2])
           /\ io[3].op = "sleep"
           /\ io[4].op = "read"

\* a block read with its status query: two transactions in the log
C17_Witness ==
    /\ Done("read_memory_block")
    /\ Len(io) = 10
    /\ IsCommand(io[2])
    /\ IsCommand(io[7])
    /\ io[6].op = "flushInput"
    /\ io[9].op = "read"

\* the 0-based index of the first 0xCC of resp (resp has one)
FirstMarker(resp) ==
    CHOOSE k \in 0..(Len(resp) - 1) :
        /\ resp[k + 1] = 204
        /\ \A m \in 0..(k - 1) : resp[m + 1] # 204

\* C18: a payload returned by read_memory_block(addr, count) whose read
\* response holds a 0xCC is response[i+3 .. i+3+count-1], i the index of the
\* first 0xCC (0-based: the count bytes after the two bytes that follow the
\* 0xCC); for a response 00 CC, two header bytes, count data bytes, it is
\* exactly the data bytes.
C18_PayloadSlice ==
    (Done("read_memory_block") /\ result.kind = "return" /\ Len(io) = 10
       /\ \E k \in 1..Len(io[4].bytes) : io[4].bytes[k] = 204) =>
        LET resp == io[4].bytes
            count == call.args[2]
            first == FirstMarker(resp)
        IN  /\ Len(result.value) = count
            /\ \A j \in 1..count :
                   /\ first + 3 + j <= Len(resp)
                   /\ result.value[j] = resp[first + 3 + j]
            /\ (SubSeq(resp, 1, 2) = <<0, 204>> /\ Len(resp) = 4 + count) =>
                   resp = <<0, 204, resp[3], resp[4]>> \o result.value

\* a payload cut out of a response whose 0xCC is not at index 1, and one cut
\* out of a response 00 CC, two header bytes, data
C18_Witness ==
    /\ Done("read_memory_block")
    /\ result.kind = "return"
    /\ Len(io) = 10
    /\ call.args[2] = 2
    /\ SubSeq(io[4].bytes, 1, 3) = <<0, 0, 204>>
    /\ result.value = SubSeq(io[4].bytes, 6, 7)

\* C19 as stated: between the read of its response and the status query,
\* read_memory_block writes exactly one acknowledgment, the single byte
\* 0xCC, the same bytes get_status (and get_chip_id) write.
C19_SingleAckByte ==
    \A j \in 1..Len(io) :
        IsReadMemFrame(io[j]) =>
            /\ io[j + 2].op = "read"
            /\ io[j + 3] = Write("ack", <<204>>)
            /\ io[j + 4].op = "flushInput"
            /\ io[j + 5] = Write("command", StatusFrame)
            /\ io[j + 3].bytes = io[j + 8].bytes

\* C19, amended: between the read of its response and the status query,
\* read_memory_block writes exactly one acknowledgment, the two bytes
\* 00 CC; get_status and get_chip_id acknowledge with the one byte 0xCC.
C19_AckTokenAfterRead ==
    /\ \A j \in 1..Len(io) :
           IsReadMemFrame(io[j]) =>
               /\ io[j + 2].op = "read"
               /\ io[j + 3] = Write("ack", <<0, 204>>)
               /\ io[j + 4].op = "flushInput"
               /\ io[j + 5] = Write("command", StatusFrame)
               /\ io[j + 8] = Write("ack", <<204>>)
    /\ \A j \in 1..Len(io) :
           (io[j].op = "write" /\ io[j].site = "ack") =>
               /\ j >= 4
               /\ io[j - 1].op = "read"
               /\ io[j].bytes = IF IsReadMemFrame(io[j - 3])
                                THEN <<0, 204>> ELSE <<204>>

\* a block read that reached the link: read, acknowledgment, status query
C19_Witness ==
    /\ Done("read_memory_block")
    /\ Len(io) = 10
    /\ io[4].op = "read"
    /\ io[5].op = "write"
    /\ io[5].site = "ack"
    /\ io[7] = Write("command", StatusFrame)

\* C20: get_status returns the last byte of its response, for every
\* non-empty response, and get_chip_id returns its response unchanged; both
\* write the acknowledgment byte 0xCC right after the read, as the last
\* operation of the call.
C20_StatusLastByteChipIdRaw ==
    /\ Done("get_status") =>
           /\ Len(io) = 5
           /\ io[2] = Write("command", StatusFrame)
           /\ io[4].op = "read"
           /\ io[5] = Write("ack", <<204>>)
           /\ io[4].bytes # <<>> =>
                  result = Return(<<io[4].bytes[Len(io[4].bytes)]>>)
    /\ Done("get_chip_id") =>
           /\ Len(io) = 5
           /\ io[2] = Write("command", ChipIdFrame)
           /\ io[4].op = "read"
           /\ io[5] = Write("ack", <<204>>)
           /\ result = Return(io[4].bytes)

\* get_status has returned the last byte of a five-byte response
C20_Witness ==
    /\ Done("get_status")
    /\ Len(io[4].bytes) = 5
    /\ result = Return(<<io[4].bytes[5]>>)
    /\ io[4].bytes[5] # io[4].bytes[1]
    /\ io[5].op = "write"

\* C21: in read_memory_block the status check comes before the length
\* check.  The status query follows every read of a read_memory response,
\* whatever the payload; and when the status is not SUCCESS and the payload
\* is shorter than count, the call fails with the error of the status check
\* (naming the status, for the statuses of the table), not with the
\* incomplete-transfer error.
C21_StatusBeforeLength ==
    /\ \A j \in 1..Len(io) :
           IsReadMemFrame(io[j]) =>
               /\ j + 8 <= Len(io)
               /\ io[j + 2].op = "read"
               /\ io[j + 5] = Write("command", StatusFrame)
               /\ io[j + 7].op = "read"
    /\ (ShortPayload /\ StatusReturned # -1 /\ StatusReturned # 64) =>
           /\ result.kind = "raise"
           /\ ~IncompleteTransfer
           /\ result.exc = "ValueError"
           /\ \A k \in 1..Len(status_val) :
                  status_val[k].val = StatusReturned =>
                      /\ result.msg = "ERROR! status:"
                      /\ result.detail = <<status_val[k].name>>

\* a short payload together with the status INVALID_ADR (0x43)
C21_Witness ==
    /\ ShortPayload
    /\ StatusReturned = 67
    /\ call.args[2] > 0
    /\ result.kind = "raise"
    /\ result.msg = "ERROR! status:"

\* the region read of a range of q full blocks and no remainder, whose full
\* blocks got well-formed responses and whose status queries, the one of
\* the final block included, all got SUCCESS
EvenRangeSucceeding(q) ==
    /\ Done("read_memory_region")
    /\ q >= 1
    /\ call.args[2] - call.args[1] = BlockSize * q
    /\ Len(io) >= 10 * q
    /\ \A k \in 1..q :
           /\ io[10 * (k - 1) + 4].bytes =
                  WellFormedRead(call.args[1] + BlockSize * (k - 1), BlockSize)
           /\ io[10 * (k - 1) + 9].bytes = StatusReply(64)
    /\ Len(io) >= 10 * q + 9 => io[10 * q + 9].bytes = StatusReply(64)

\* C22: when stop - start is a positive multiple of 253, read_memory_region
\* issues the final block read with count 0 at address stop and accepts its
\* empty payload, whatever the response to that read: with SUCCESS reported
\* it returns exactly the stop - start bytes of the full blocks.
C22_EvenRangeFinalBlockEmpty ==
    \A q \in 1..(MaxBlocks + 1) :
        EvenRangeSucceeding(q) =>
            /\ Len(io) = 10 * (q + 1)
            /\ Len(ReadFrames(io)) = q + 1
            /\ ReadFrames(io)[q + 1] = [addr |-> call.args[2], count |-> 0]
            /\ result.kind = "return"
            /\ Len(block_log) = q + 1
            /\ block_log[q + 1].bytes = <<>>
            /\ Len(result.value) = call.args[2] - call.args[1]
            /\ result.value = MemBytes(call.args[1], BlockSize * q)

\* two full blocks, then the final read of count 0 answered with a NACK
C22_Witness ==
    /\ EvenRangeSucceeding(2)
    /\ Len(io) = 30
    /\ io[24].bytes = NACK
    /\ result.kind = "return"
    /\ Len(result.value) = 506

\* C23 as stated: the first byte of every command frame equals the length
\* of the command body, the bytes after the checksum byte.
C23_SizeIsBodyLength ==
    \A j \in 1..Len(io) :
        IsCommand(io[j]) => io[j].bytes[1] = Len(io[j].bytes) - 2

\* C23, amended: the first byte of every command frame is the size field
\* and equals the length of the whole frame, the size and checksum bytes
\* included (body length plus 2): 9 for the read_memory frame, whose body is
\* opcode, 4 address bytes, access type and count, and 3 for the frames of
\* one opcode.
C23_SizeIsFrameLength ==
    \A j \in 1..Len(io) :
        IsCommand(io[j]) =>
            /\ io[j].bytes[1] = Len(io[j].bytes)
            /\ IsReadMemFrame(io[j]) =>
                   /\ io[j].bytes[1] = 9
                   /\ Len(SubSeq(io[j].bytes, 3, Len(io[j].bytes))) = 7
            /\ ~IsReadMemFrame(io[j]) =>
                   /\ io[j].bytes[1] = 3
                   /\ Len(SubSeq(io[j].bytes, 3, Len(io[j].bytes))) = 1

\* a block read wrote its nine-byte frame and the three-byte status frame
C23_Witness ==
    /\ Done("read_memory_block")
    /\ Len(io) = 10
    /\ Len(io[2].bytes) = 9
    /\ io[2].bytes[1] = 9
    /\ io[7].bytes = <<3, 35, 35>>

\* the positions of log at which the chip-identifier frame is written
ChipIdQueries(log) ==
    {j \in 1..Len(log) : log[j] = Write("command", <<3, 40, 40>>)}

\* C24: the constructor issues the chip-identifier query exactly once when
\* the handshake reply is 00 CC, and then after the read of that reply; when
\* the reply is anything else the frame 03 28 28 is never written.
C24_ChipIdQueryOnceAfterHandshake ==
    Done("__init__") =>
        /\ io[2] = Write("sync", <<85, 85>>)
        /\ io[4].op = "read"
        /\ io[4].bytes = <<0, 204>> =>
               /\ Cardinality(ChipIdQueries(io)) = 1
               /\ \A j \in ChipIdQueries(io) : j > 4
               /\ result.kind = "return"
        /\ io[4].bytes # <<0, 204>> =>
               /\ ChipIdQueries(io) = {}
               /\ Len(io) = 4
               /\ result.kind = "raise"

\* a constructor whose handshake was acknowledged and that asked for the
\* chip identifier
C24_Witness ==
    /\ Done("__init__")
    /\ io[4].bytes = <<0, 204>>
    /\ ChipIdQueries(io) = {6}
    /\ sbi = "ready"

\* data of up to three bytes with and without the value 0xCC
SmallData == UNION {[1..n -> {1, 204}] : n \in 0..3}

\* C25: when the response to the read_memory command begins with the ACK
\* token 00 CC, the payload read_memory_block returns is the data the device
\* sent, the count bytes after the two header bytes, whether or not data
\* (or header) bytes have the value 0xCC.
C25_DataWithMarkerByte ==
    /\ (Done("read_memory_block") /\ Len(io) = 10 /\ result.kind = "return"
          /\ IsPrefix(<<0, 204>>, io[4].bytes)) =>
           /\ Len(result.value) = call.args[2]
           /\ \A j \in 1..call.args[2] :
                  /\ 4 + j <= Len(io[4].bytes)
                  /\ result.value[j] = io[4].bytes[4 + j]
           /\ io[4].bytes = WellFormedRead(call.args[1], call.args[2]) =>
                  result.value = MemBytes(call.args[1], call.args[2])
    /\ \A d \in SmallData : \A h1 \in {0, 204}, h2 \in {0, 204} :
           Extract(<<0, 204, h1, h2>> \o d, Len(d)) = d

\* a returned payload that holds the byte 0xCC
C25_Witness ==
    /\ Done("read_memory_block")
    /\ Len(io) = 10
    /\ result.kind = "return"
    /\ IsPrefix(<<0, 204>>, io[4].bytes)
    /\ call.args[2] = 2
    /\ result.value[2] = 204

\* the response read for the read_memory command of a direct
\* read_memory_block call holds the byte 0xCC
ResponseHasMarker ==
    \E k \in 1..Len(io[4].bytes) : io[4].bytes[k] = 204

\* C26: read_memory_block returns data only if the response to the
\* read_memory command held the marker byte 0xCC: a response without it
\* never leads to a return, even one that is long enough and followed by
\* the status SUCCESS.
C26_NoMarkerNoReturn ==
    (Done("read_memory_block") /\ Len(io) = 10 /\ result.kind = "return")
        => ResponseHasMarker

\* C27: when the device sends nothing in response to the status query,
\* get_status returns no status code: it fails with an error (IndexError),
\* which read_memory_block and read_memory_region hand on to their caller,
\* so that an absent status response never counts as SUCCESS.
C27_AbsentStatusFails ==
    /\ (Done("get_status") /\ io[4].bytes = <<>>) =>
           /\ result.kind = "raise"
           /\ result.exc = "IndexError"
           /\ result.value = <<>>
    /\ call.name \in {"read_memory_block", "read_memory_region"} =>
           \A j \in 1..Len(io) :
               (io[j] = Write("command", <<3, 35, 35>>)
                  /\ j + 3 <= Len(io) /\ io[j + 2].bytes = <<>>) =>
                   /\ pc = "done"
                   /\ j + 3 = Len(io)
                   /\ result.kind = "raise"
                   /\ result.exc = "IndexError"
                   /\ result.value = <<>>

\* a block read with a well-formed response whose status query got no
\* answer
C27_Witness ==
    /\ Done("read_memory_block")
    /\ Len(io) = 10
    /\ call.args = <<0, 2>>
    /\ io[4].bytes = WellFormedRead(0, 2)
    /\ io[9].bytes = <<>>
    /\ result.exc = "IndexError"

\* C28: for start < stop every read_memory frame of
\* read_memory_region(start, stop) has a count in 0..253 and an address a
\* with start <= a <= stop and a + count <= stop; the addresses of
\* successive frames strictly increase, the ranges [a, a + count) are
\* pairwise disjoint, each begins where the one before ends, the first at
\* start, and once the final block read is written they end at stop: they
\* cover [start, stop) exactly.
C28_FramesPartitionRange ==
    (call.name = "read_memory_region" /\ call.args[1] < call.args[2]) =>
        LET fs    == ReadFrames(io)
            start == call.args[1]
            stop  == call.args[2]
        IN  /\ \A k \in 1..Len(fs) :
                   /\ fs[k].count \in 0..253
                   /\ start <= fs[k].addr
                   /\ fs[k].addr <= stop
                   /\ fs[k].addr + fs[k].count <= stop
            /\ \A k \in 1..(Len(fs) - 1) :
                   /\ fs[k].addr < fs[k + 1].addr
                   /\ fs[k + 1].addr = fs[k].addr + fs[k].count
            /\ \A j \in 1..Len(fs), k \in 1..Len(fs) :
                   j < k => fs[j].addr + fs[j].count <= fs[k].addr
            /\ Len(fs) >= 1 => fs[1].addr = start
            /\ Len(fs) <= blocks + 1
            /\ (pc = "done" /\ result.kind = "return") =>
                   /\ Len(fs) = blocks + 1
                   /\ fs[Len(fs)].addr + fs[Len(fs)].count = stop
                   /\ \A a \in {start, stop - 1, start + 252, start + 253} :
                          a < stop =>
                              Cardinality({k \in 1..Len(fs) :
                                  /\ fs[k].addr <= a
                                  /\ a < fs[k].addr + fs[k].count}) = 1

\* a region read of two full blocks and a remainder of 36 bytes is done
C28_Witness ==
    /\ Done("read_memory_region")
    /\ result.kind = "return"
    /\ call.args[2] - call.args[1] = 542
    /\ Len(ReadFrames(io)) = 3
    /\ ReadFrames(io)[3].count = 36

\* C29: with the device a process of its own, the bytes a command reads as
\* its response are all bytes the device sent in answer to that command:
\* no byte sent in answer to an earlier command is among them, whenever the
\* device's bytes arrive.
C29_ResponseOnlyOwnBytes ==
    pc = "async" =>
        \A k \in 1..Len(wire.resp) : wire.resp[k].of = wire.of

\* thorough_reset_dut is running
InReset == pc = "sweep" /\ sweep.pc = "reset"

\* the rounds of thorough_reset_dut so far: the delay has grown by 0.5 with
\* every counted retry, and the last reply of a call that goes on did not
\* decode to 10000
ResetRounds ==
    InReset =>
        /\ sweep.delay = 5 + 50 * sweep.tries
        /\ sweep.tries > 0 => IntFromBytesLittle(sweep.rret) # 10000

\* thorough_reset_dut returns with, as its last reply, one that decodes to
\* 10000
ReturnsOn10000 ==
    (InReset /\ sweep'.pc # "reset") =>
        /\ IntFromBytesLittle(sweep'.rret) = 10000
        /\ sweep'.pc = "loop"

\* a reply that does not decode to 10000 keeps thorough_reset_dut running,
\* with one more retry counted and the delay 0.5 longer (up to the count's
\* bound)
RetriesOnOther ==
    (InReset /\ sweep'.pc = "reset" /\ sweep' # sweep) =>
        /\ IntFromBytesLittle(sweep'.rret) # 10000
        /\ sweep.tries < MaxRetries =>
               /\ sweep'.tries = sweep.tries + 1
               /\ sweep'.delay = sweep.delay + 50

\* C30: thorough_reset_dut returns only after a reply to the 0xAA query that
\* decodes (little-endian) to 10000; after each reply that does not, it
\* resets the target again with the delay 0.5 longer and queries again,
\* without a bound on the retries.  It returns at last if the target
\* answers 10000 again and again while it runs, and it never returns by
\* another way.
C30_ResetUntil10000 ==
    /\ []ResetRounds
    /\ [][ReturnsOn10000 /\ RetriesOnOther]_vars
    /\ SF_vars(ResetAnswered) => (InReset ~> ~InReset)

\* thorough_reset_dut has returned after two replies that did not decode to
\* 10000 and one that did
C30_Witness ==
    /\ pc = "sweep"
    /\ sweep.pc = "loop"
    /\ sweep.resets = 1
    /\ sweep.tries = 2
    /\ sweep.delay = 105
    /\ IntFromBytesLittle(sweep.rret) = 10000


\* the places of a call in the log of the sweep cell
Places(log, what) == {k \in 1..Len(log) : log[k] = what}

\* C31: in the EMFI sweep the PicoEMP is armed, with 'Device armed'
\* acknowledged, before the first attempt and disarmed after the last one;
\* every scope.arm() comes directly after a wait_for_hv of the same attempt
\* that saw tio_states[2] = 0; and a sweep that completes has made exactly
\* NumOffsets * Repeats attempts, resets included or not.
C31_SweepArmedChargedCounted ==
    LET log == sweep.log
        arms == Places(log, "scope.arm")
    IN  /\ arms # {} =>
              /\ Len(log) >= 2
              /\ log[1] = "pico.arm"
              /\ log[2] = "armed"
              /\ Places(log, "pico.arm") = {1}
        /\ \A k \in arms : k > 1 /\ log[k - 1] = "wait_for_hv"
        /\ Cardinality(Places(log, "wait_for_hv")) \in
              {Cardinality(arms), Cardinality(arms) + 1}
        /\ sweep.pc \in {"scope_arm", "request"} => sweep.tio = 0
        /\ \A k \in Places(log, "pico.disarm") : \A a \in arms : a < k
        /\ sweep.pc = "finished" =>
              /\ Cardinality(arms) = NumOffsets * Repeats
              /\ Len(log) >= 2
              /\ log[Len(log)] = "disarmed"
              /\ log[Len(log) - 1] = "pico.disarm"
              /\ Places(log, "pico.disarm") = {Len(log) - 1}
              /\ ~sweep.armed

\* a sweep that completed after a thorough_reset_dut between two attempts
C31_Witness ==
    /\ pc = "sweep"
    /\ sweep.pc = "finished"
    /\ sweep.resets > 0
    /\ sweep.crashes > 0
    /\ sweep.faults > 0
    /\ Cardinality(Places(sweep.log, "scope.arm")) = NumOffsets * Repeats


\* the sweep cell has returned control, normally or with an exception
CellStopped == pc = "sweep" /\ sweep.pc \in {"finished", "aborted"}

\* C32: whenever the sweep cell stops after pico.arm() has succeeded, by
\* completing or by an exception raised inside the loops, the disarm
\* command has been sent to the PicoEMP: the cell never leaves it armed.
C32_DisarmSentWhenStopped ==
    (CellStopped /\ Places(sweep.log, "armed") # {}) =>
        /\ Places(sweep.log, "pico.disarm") # {}
        /\ sweep.exc \in LoopErrors("loop") \cup LoopErrors("request") =>
              ~sweep.armed


\* the steps of the preparation cell's log that are of one kind
Steps(what) == {k \in 1..Len(prep.log) : prep.log[k].what = what}

\* C33: in the preparation cell the flash command runs only after a
\* mass-erase whose output held 'Device Unlocked', with the power cycle in
\* between; after an erase without that marker the target is not
\* power-cycled and no flash is started; and 'Target has been flashed!' is
\* printed only if the flash output held 'Board Reset Complete'.
C33_FlashOnlyAfterUnlock ==
    LET log == prep.log
        erased == {k \in Steps("erase") : Contains("Device Unlocked", log[k].out)}
    IN  /\ \A f \in Steps("flash") :
              /\ \E e \in erased : e < f
              /\ \E a \in Steps("power off"), b \in Steps("power on") :
                    1 < a /\ a < b /\ b < f
        /\ \A k \in Steps("power off") \cup Steps("power on") :
              \E e \in erased : e < k
        /\ (Steps("erase") # {} /\ erased = {}) =>
              /\ Steps("flash") = {}
              /\ Steps("power off") = {}
              /\ Steps("power on") = {}
              /\ prep.pc = "done"
              /\ Len(prep.printed) = 1
              /\ prep.printed[1] # "Target has been flashed!"
        /\ Contains("Target has been flashed!", prep.printed) =>
              /\ Steps("flash") # {}
              /\ \A f \in Steps("flash") :
                    Contains("Board Reset Complete", log[f].out)
        /\ Cardinality(Steps("erase")) <= 1
        /\ Cardinality(Steps("flash")) <= 1

\* erased, power-cycled and flashed with success reported, the marker not
\* on the first line of either output
C33_Witness ==
    /\ pc = "prepare"
    /\ prep.pc = "done"
    /\ Len(prep.log) = 4
    /\ prep.log[1] = Ran("erase", <<"Failed", "Device Unlocked">>)
    /\ prep.log[4].what = "flash"
    /\ prep.log[4].out = <<"Failed", "Board Reset Complete">>
    /\ prep.printed = <<"Target has been flashed!">>
    /\ prep.nrst = "high"
    /\ prep.target_pwr

===========================================================================
